---- MODULE Spec2Model ----
(***************************************************************************)
(* FileSessionTempCleanTask (internal/task/task_file_session_temp_clean.go) *)
(* as a state machine: the task instance (firstRun), the temp directory    *)
(* tree it works on, one invocation of Run split at its filesystem calls,  *)
(* and the other actors on the directory (external processes, the clock,   *)
(* the context's cancellation).                                            *)
(*                                                                         *)
(* Time is counted in units of 30 minutes.  A filesystem call's outcome is *)
(* a function of the filesystem state (existence, the locked flag of a     *)
(* file, the denied path); that state changes only through the task and    *)
(* the external actions below.  os.Stat reports "not exist" exactly when   *)
(* the directory is absent.  The mode of the directory is the mode passed  *)
(* to os.MkdirAll (the bits before the process umask is applied).          *)
(***************************************************************************)
EXTENDS Integers, Sequences, FiniteSets, TLC

\* ---------------------------------------------------------------- bounds
MaxTime == 6            \* the clock stops advancing here

\* ------------------------------------------------------------- constants
Hour == 2               \* time.Hour in 30-minute units
LoopIntervalValue == Hour               \* LoopInterval(): time.Hour
NoStartupRun == FALSE
IsStartupRun == TRUE                    \* IsStartupRun(): true
Octal(a, b, c) == a * 64 + b * 8 + c
DirPerm == Octal(7, 5, 4)               \* os.MkdirAll(tempDir, 0754)
OtherPerm == Octal(7, 5, 5)             \* a directory made by someone else

\* ------------------------------------------------------- the directory tree
tempDir == "temp"                       \* global.Config.App.TempPath
SubDir == "temp/s"
Dirs == {tempDir, SubDir}
FileNames == {"temp/s/c", "temp/z"}
Paths == Dirs \cup FileNames
NoPath == "-"

Parent(p) == IF p = "temp/s/c" THEN SubDir ELSE tempDir

\* directory entries in the lexical order filepath.Walk visits them
Entries(d) == IF d = tempDir THEN <<SubDir, "temp/z">>
              ELSE IF d = SubDir THEN <<"temp/s/c">>
              ELSE <<>>

NoFile == [exists |-> FALSE, mtime |-> 0, locked |-> FALSE, seen |-> FALSE]
NoFiles == [f \in FileNames |-> NoFile]
NoPre == [files |-> NoFiles, dirs |-> {}, firstRun |-> FALSE]

VARIABLES
    firstRun,       \* t.firstRun
    pc,             \* where the current invocation of Run stands
    now,            \* the wall clock
    dirs,           \* the directories that exist
    files,          \* the regular files: existence, mtime, removability
    perm,           \* the mode of tempDir
    denied,         \* the path whose access fails, or NoPath
    cancelled,      \* ctx.Done() is closed
    twoHoursAgo,    \* Run's local
    deletedCount,   \* Run's local
    errorCount,     \* Run's local
    todo,           \* filepath.Walk: the entries still to visit
    err,            \* the value Run returns
    branch,         \* the branch the invocation took
    pre,            \* the filesystem and flag when the invocation began
    wiped,          \* an earlier invocation returned nil from the wipe branch
    quiet,          \* the last invocation was a sweep and nothing happened since
    nextTick,       \* the scheduler: time of this task's next invocation
    inFlight,       \* the scheduler: invocations begun and not yet returned
    lastErr         \* the scheduler: what the last invocation returned

vars == <<firstRun, pc, now, dirs, files, perm, denied, cancelled, twoHoursAgo,
          deletedCount, errorCount, todo, err, branch, pre, wiped, quiet,
          nextTick, inFlight, lastErr>>

schedVars == <<nextTick, inFlight, lastErr>>
taskLocals == <<twoHoursAgo, deletedCount, errorCount, todo>>
fsVars == <<dirs, files, perm>>

Exists(p) == IF p \in Dirs THEN p \in dirs ELSE files[p].exists

TypeOK ==
    /\ firstRun \in BOOLEAN
    /\ pc \in {"idle", "removeall", "mkdirall", "walkroot", "walk", "done"}
    /\ now \in 0..MaxTime
    /\ dirs \subseteq Dirs
    /\ \A f \in FileNames : files[f].exists => Parent(f) \in dirs
    /\ SubDir \in dirs => tempDir \in dirs
    /\ denied \in Paths \cup {NoPath}
    /\ cancelled \in BOOLEAN
    /\ deletedCount \in Nat /\ errorCount \in Nat

\* ------------------------------------------------------------ the clean-up task
\* NewFileSessionTempCleanTask: firstRun: true
NewFirstRun == TRUE

\* the flag as Run leaves it on entering the first-run branch
FirstRunKeep == TRUE
FirstRunOnEntry == FALSE

\* os.Stat(tempDir): nil, or the error it reports
Stat == IF tempDir \notin dirs THEN "ENOENT"
        ELSE IF denied = tempDir THEN "EACCES"
        ELSE "nil"

\* os.IsNotExist(err)
IsExist(e) == e = "EEXIST"
IsNotExistAny(e) == e # "nil"
IsNotExist(e) == e = "ENOENT"

\* time.Now().Add(-2 * time.Hour)
TwoHoursAhead(t) == t + 2 * Hour
TwoHoursAgo(t) == t - 2 * Hour

\* info.ModTime().Before(twoHoursAgo)
BeforeOrEqual(m, t) == m <= t
Before(m, t) == m < t

\* info.IsDir()
IsDirNever(p) == FALSE
IsDir(p) == p \in Dirs

\* the counters after os.Remove returned removeErr
CountAlwaysDeleted(removeErr, d, e) == [deleted |-> d + 1, errors |-> e]
Count(removeErr, d, e) ==
    IF removeErr # "nil" THEN [deleted |-> d, errors |-> e + 1]
    ELSE [deleted |-> d + 1, errors |-> e]

\* what the walk callback returns to filepath.Walk
WalkFnReturnErr(accessErr, removeErr) ==
    IF accessErr # "nil" THEN accessErr ELSE removeErr
WalkFnReturn(accessErr, removeErr) == "nil"

\* the mode Run passes to os.MkdirAll
MkdirModeOther == OtherPerm
MkdirMode == DirPerm

\* Run, lines 34-55 and 88-90: the existence check and the choice of branch
RunEntry ==
    /\ pc = "idle"
    /\ ~cancelled
    /\ pre' = [files |-> files, dirs |-> dirs, firstRun |-> firstRun]
    /\ IF IsNotExist(Stat)
       THEN /\ err' = Stat
            /\ branch' = "missing"
            /\ pc' = "done"
            /\ UNCHANGED <<firstRun, taskLocals>>
       ELSE IF firstRun
       THEN /\ firstRun' = FirstRunOnEntry
            /\ branch' = "wipe"
            /\ pc' = "removeall"
            /\ UNCHANGED <<err, taskLocals>>
       ELSE /\ twoHoursAgo' = TwoHoursAgo(now)
            /\ deletedCount' = 0
            /\ errorCount' = 0
            /\ branch' = "sweep"
            /\ pc' = "walkroot"
            /\ UNCHANGED <<firstRun, err, todo>>
    /\ UNCHANGED <<now, fsVars, denied, cancelled, wiped, quiet>>

\* os.RemoveAll(tempDir): what is left of the tree
CanUnlink(f) == /\ ~files[f].locked
                /\ denied \notin {f, Parent(f), tempDir}
FilesAfterRemoveAll == [f \in FileNames |->
    IF files[f].exists /\ CanUnlink(f) THEN NoFile ELSE files[f]]
DirsAfterRemoveAll ==
    LET left == {f \in FileNames : FilesAfterRemoveAll[f].exists}
        sub == IF SubDir \in dirs /\ (\E f \in left : Parent(f) = SubDir)
               THEN {SubDir} ELSE {}
        top == IF tempDir \in dirs
                  /\ (denied = tempDir \/ sub # {} \/ \E f \in left : Parent(f) = tempDir)
               THEN {tempDir} ELSE {}
    IN sub \cup top

\* Run, lines 57-66
RemoveAllStep ==
    /\ pc = "removeall"
    /\ files' = FilesAfterRemoveAll
    /\ dirs' = DirsAfterRemoveAll
    /\ perm' = IF tempDir \in DirsAfterRemoveAll THEN perm ELSE 0
    /\ IF tempDir \in DirsAfterRemoveAll
       THEN /\ err' = "RemoveAllErr"
            /\ pc' = "done"
       ELSE /\ pc' = "mkdirall"
            /\ UNCHANGED err
    /\ UNCHANGED <<firstRun, now, denied, cancelled, taskLocals, branch, pre,
                   wiped, quiet, schedVars>>

\* Run, lines 68-84: os.MkdirAll succeeds or fails (no space, read-only parent)
MkdirAllStep ==
    /\ pc = "mkdirall"
    /\ \E ok \in BOOLEAN :
          IF ok
          THEN /\ dirs' = dirs \cup {tempDir}
               /\ perm' = IF tempDir \in dirs THEN perm ELSE MkdirMode
               /\ err' = "nil"
          ELSE /\ err' = "MkdirAllErr"
               /\ UNCHANGED <<dirs, perm>>
    /\ pc' = "done"
    /\ UNCHANGED <<firstRun, now, files, denied, cancelled, taskLocals, branch,
                   pre, wiped, quiet, schedVars>>

\* readDirNames(d): the names present in d, sorted
RECURSIVE Present(_)
Present(s) == IF s = <<>> THEN <<>>
              ELSE IF Exists(Head(s)) THEN <<Head(s)>> \o Present(Tail(s))
              ELSE Present(Tail(s))
ReadDirNames(d) == Present(Entries(d))

\* the error filepath.Walk hands to the callback for path p ("nil": none)
AccessErr(p) == IF ~Exists(p) THEN "ENOENT"
                ELSE IF denied = p THEN "EACCES"
                ELSE "nil"

\* info.ModTime(): a file's is tracked, a directory's is not: it is taken as
\* the oldest or the newest time possible
ModTimes(p) == IF p \in FileNames THEN {files[p].mtime} ELSE {0, now}

\* os.Remove(path): nil, or the error for a file that cannot be removed or a
\* directory that is not empty
Remove(p) == IF p \in Dirs
             THEN IF ReadDirNames(p) # <<>> THEN "ENOTEMPTY" ELSE "nil"
             ELSE IF files[p].locked THEN "EPERM" ELSE "nil"

\* Run, lines 92-124: the walk callback on path p, handed the error aerr and
\* an info whose modification time is m: what it leaves and what it returns
WalkFn(p, aerr, m) ==
    LET stale == aerr = "nil" /\ ~IsDir(p) /\ Before(m, twoHoursAgo)
        rerr == IF stale THEN Remove(p) ELSE "nil"
        gone == stale /\ rerr = "nil"
        cnt == IF stale THEN Count(rerr, deletedCount, errorCount)
               ELSE [deleted |-> deletedCount, errors |-> errorCount]
    IN [files |-> IF gone /\ p \in FileNames
                  THEN [files EXCEPT ![p] = NoFile] ELSE files,
        dirs |-> IF gone /\ p \in Dirs THEN dirs \ {p} ELSE dirs,
        deleted |-> cnt.deleted,
        errors |-> cnt.errors,
        ret |-> WalkFnReturn(aerr, rerr)]

\* Run, lines 92-106 for the root: filepath.Walk's Lstat of tempDir, the
\* listing of its entries and the callback on it
WalkRoot ==
    /\ pc = "walkroot"
    /\ \E m \in ModTimes(tempDir) :
        LET aerr == AccessErr(tempDir)
            r == WalkFn(tempDir, aerr, m)
        IN /\ files' = r.files
           /\ dirs' = r.dirs
           /\ perm' = IF tempDir \in r.dirs THEN perm ELSE 0
           /\ deletedCount' = r.deleted
           /\ errorCount' = r.errors
           /\ IF r.ret # "nil"
              THEN /\ err' = r.ret
                   /\ pc' = "done"
                   /\ UNCHANGED todo
              ELSE IF aerr # "nil"
              THEN /\ err' = "nil"
                   /\ pc' = "done"
                   /\ UNCHANGED todo
              ELSE /\ todo' = ReadDirNames(tempDir)
                   /\ pc' = "walk"
                   /\ UNCHANGED err
    /\ UNCHANGED <<firstRun, now, denied, cancelled, twoHoursAgo,
                   branch, pre, wiped, quiet, schedVars>>

\* Run, lines 92-124: filepath.Walk reaches the next entry and calls the callback
WalkEntry ==
    /\ pc = "walk"
    /\ todo # <<>>
    /\ \E m \in ModTimes(Head(todo)) :
        LET p == Head(todo)
            aerr == AccessErr(p)
            r == WalkFn(p, aerr, m)
        IN /\ files' = r.files
           /\ dirs' = r.dirs
           /\ deletedCount' = r.deleted
           /\ errorCount' = r.errors
           /\ IF r.ret # "nil"
              THEN /\ err' = r.ret
                   /\ pc' = "done"
                   /\ UNCHANGED todo
              ELSE /\ todo' = IF aerr = "nil" /\ p \in Dirs
                              THEN ReadDirNames(p) \o Tail(todo)
                              ELSE Tail(todo)
                   /\ UNCHANGED <<err, pc>>
    /\ UNCHANGED <<firstRun, now, perm, denied, cancelled, twoHoursAgo,
                   branch, pre, wiped, quiet, schedVars>>

\* Run, lines 126-143: filepath.Walk returned nil
WalkDone ==
    /\ pc = "walk"
    /\ todo = <<>>
    /\ err' = "nil"
    /\ pc' = "done"
    /\ UNCHANGED <<firstRun, now, fsVars, denied, cancelled, twoHoursAgo,
                   deletedCount, errorCount, todo, branch, pre, wiped, quiet,
                   schedVars>>

\* Run has returned: the caller takes the result and the locals are gone
Return ==
    /\ pc = "done"
    /\ pc' = "idle"
    /\ wiped' = (wiped \/ (branch = "wipe" /\ err = "nil"))
    /\ quiet' = (branch = "sweep")
    /\ files' = [f \in FileNames |->
                   IF files[f].exists THEN [files[f] EXCEPT !.seen = TRUE] ELSE NoFile]
    /\ err' = "none"
    /\ branch' = "none"
    /\ pre' = NoPre
    /\ twoHoursAgo' = 0
    /\ deletedCount' = 0
    /\ errorCount' = 0
    /\ todo' = <<>>
    /\ lastErr' = err
    /\ inFlight' = inFlight - 1
    /\ UNCHANGED <<firstRun, now, dirs, perm, denied, cancelled, nextTick>>

\* -------------------------------------------------------------- the scheduler
\* a task's loop starts an invocation only when the previous one has returned
MayInvokeAlways == TRUE
MayInvoke == inFlight = 0

\* an error returned from Run is logged and the loop goes on
LoopStopsOnError(e) == e \in {"none", "nil"}
LoopContinues(e) == TRUE

\* an invocation begins; one begun while another is in flight is only counted
Start ==
    /\ ~cancelled
    /\ inFlight < 2
    /\ inFlight' = inFlight + 1
    /\ IF pc = "idle"
       THEN RunEntry
       ELSE UNCHANGED <<firstRun, pc, now, fsVars, denied, cancelled, taskLocals,
                        err, branch, pre, wiped, quiet>>

\* any serialized sequence of invocations
Invoke == MayInvoke /\ Start /\ UNCHANGED <<nextTick, lastErr>>

\* the declared cadence: a startup run, then one invocation per LoopInterval
Tick ==
    /\ now = nextTick
    /\ MayInvoke
    /\ LoopContinues(lastErr)
    /\ Start
    /\ nextTick' = now + LoopIntervalValue
    /\ UNCHANGED lastErr

Clock ==
    /\ pc = "idle"
    /\ ~cancelled
    /\ now < MaxTime
    /\ now' = now + 1
    /\ quiet' = FALSE
    /\ UNCHANGED <<firstRun, pc, fsVars, denied, cancelled, taskLocals, err,
                   branch, pre, wiped>>

AdvanceTime == Clock /\ UNCHANGED schedVars

WaitInterval == now < nextTick /\ Clock /\ UNCHANGED schedVars

\* ------------------------------------------------------------ the other actors
Deniable == {tempDir, SubDir, "temp/s/c"}

\* a process creates or rewrites a file
CreateFile ==
    /\ pc = "idle"
    /\ ~cancelled
    /\ \E f \in FileNames, lk \in BOOLEAN :
          /\ Parent(f) \in dirs
          /\ files' = [files EXCEPT ![f] =
                 [exists |-> TRUE, mtime |-> now, locked |-> lk, seen |-> FALSE]]
    /\ quiet' = FALSE
    /\ UNCHANGED <<firstRun, pc, now, dirs, perm, denied, cancelled, taskLocals,
                   err, branch, pre, wiped, schedVars>>

\* a process creates the temp directory or the subdirectory
ExternalMkdir ==
    /\ pc = "idle"
    /\ ~cancelled
    /\ \E d \in Dirs \ dirs :
          /\ d = SubDir => tempDir \in dirs
          /\ dirs' = dirs \cup {d}
          /\ perm' = IF d = tempDir THEN OtherPerm ELSE perm
    /\ quiet' = FALSE
    /\ UNCHANGED <<firstRun, pc, now, files, denied, cancelled, taskLocals,
                   err, branch, pre, wiped, schedVars>>

\* a process removes the temp directory, also while Run is at work
ExternalRemoveTree ==
    /\ pc # "done"
    /\ ~cancelled
    /\ tempDir \in dirs
    /\ dirs' = {}
    /\ files' = NoFiles
    /\ perm' = 0
    /\ quiet' = FALSE
    /\ UNCHANGED <<firstRun, pc, now, denied, cancelled, taskLocals, err, branch,
                   pre, wiped, schedVars>>

\* permissions change: access to one path starts or stops failing
SetDenied ==
    /\ pc = "idle"
    /\ ~cancelled
    /\ \E p \in (Deniable \cup {NoPath}) \ {denied} : denied' = p
    /\ quiet' = FALSE
    /\ UNCHANGED <<firstRun, pc, now, fsVars, cancelled, taskLocals, err, branch,
                   pre, wiped, schedVars>>

\* the context passed to Run is cancelled
Cancel ==
    /\ ~cancelled
    /\ pc # "done"
    /\ cancelled' = TRUE
    /\ UNCHANGED <<firstRun, pc, now, fsVars, denied, taskLocals, err, branch,
                   pre, wiped, quiet, schedVars>>

\* ---------------------------------------------------------- the specifications
Init ==
    /\ firstRun = NewFirstRun
    /\ pc = "idle"
    /\ now = 0
    /\ dirs \in {{}, {tempDir}}
    /\ files = NoFiles
    /\ perm = IF tempDir \in dirs THEN OtherPerm ELSE 0
    /\ denied = NoPath
    /\ cancelled = FALSE
    /\ twoHoursAgo = 0
    /\ deletedCount = 0
    /\ errorCount = 0
    /\ todo = <<>>
    /\ err = "none"
    /\ branch = "none"
    /\ pre = NoPre
    /\ wiped = FALSE
    /\ quiet = FALSE
    /\ nextTick = IF IsStartupRun THEN 0 ELSE LoopIntervalValue
    /\ inFlight = 0
    /\ lastErr = "none"

RunStep == RemoveAllStep \/ MkdirAllStep \/ WalkRoot \/ WalkEntry \/ WalkDone \/ Return

Env == CreateFile \/ ExternalMkdir \/ ExternalRemoveTree \/ SetDenied \/ Cancel

Next == Invoke \/ AdvanceTime \/ RunStep \/ Env

Spec == Init /\ [][Next]_vars

NextCadence == Tick \/ WaitInterval \/ RunStep \/ Env

SpecCadence == Init /\ [][NextCadence]_vars

\* ------------------------------------------------------------------ the claims
\* the age threshold of a sweep at the current time: files last modified
\* before it are stale
Stale(f) == pre.files[f].exists /\ pre.files[f].mtime < now - 2 * Hour
Reached(f) == denied \notin {tempDir, f, Parent(f)}
SweepReturned == pc = "done" /\ branch = "sweep" /\ tempDir \in dirs

\* a step of Run (every one moves pc or the walk), and one that removes file f
TaskStep == pc' # pc \/ todo' # todo
TaskDeletes(f) == /\ files[f].exists /\ ~files'[f].exists
                  /\ (pc' # pc \/ todo' # todo)

\* C1: when the recursive delete or the recreate fails in a first-run
\* invocation, Run returns that error and the task is still in FirstRun
\* (firstRun is still set).
C1_WipeFailureKeepsFirstRun ==
    (pc = "done" /\ branch = "wipe" /\ err # "nil") => firstRun

\* C2: once an invocation has returned nil from the wipe-and-recreate branch,
\* no later invocation executes the recursive delete or the recreate; every
\* later invocation is a directory-missing failure or a sweep.
C2_NoWipeAfterSuccess ==
    wiped => /\ pc \notin {"removeall", "mkdirall"}
             /\ branch \in {"none", "missing", "sweep"}

C2_Witness ==
    /\ wiped /\ pc = "done" /\ branch = "sweep" /\ tempDir \in pre.dirs

\* C3: an invocation that finds the directory absent returns the not-exist
\* error at once, changes nothing in the filesystem and leaves firstRun as it
\* was.
C3_MissingDirectory ==
    (pc # "idle" /\ tempDir \notin pre.dirs) =>
        /\ pc = "done"
        /\ branch = "missing"
        /\ err = "ENOENT"
        /\ dirs = pre.dirs
        /\ files = pre.files
        /\ firstRun = pre.firstRun

C3_Witness ==
    /\ pc = "done" /\ tempDir \notin pre.dirs /\ pre.firstRun /\ firstRun

\* C4: a sweep deletes a file only if its modification time is strictly
\* before now minus two hours: a file at or after the threshold is untouched,
\* and a removable, reachable file older than the threshold is gone.
C4_StrictlyOlder ==
    SweepReturned =>
        \A f \in FileNames :
            pre.files[f].exists =>
                /\ pre.files[f].mtime >= now - 2 * Hour => files[f] = pre.files[f]
                /\ (Stale(f) /\ ~pre.files[f].locked /\ Reached(f)) => ~files[f].exists

\* one file exactly two hours old is kept, one 150 minutes old is deleted
C4_Witness ==
    /\ SweepReturned
    /\ pre.files["temp/z"].exists
    /\ pre.files["temp/z"].mtime = now - 2 * Hour
    /\ files["temp/z"].exists
    /\ pre.files["temp/s/c"].exists
    /\ pre.files["temp/s/c"].mtime = now - 2 * Hour - 1
    /\ ~files["temp/s/c"].exists
    /\ deletedCount = 1
    /\ errorCount = 0

\* C5: a sweep whose walk cannot proceed because the root directory vanished
\* after the existence check returns a non-nil error.
C5_WalkFailureIsError ==
    (pc = "done" /\ branch = "sweep" /\ tempDir \notin dirs) => err # "nil"

\* C6: in a sweep over a tree with k removable and m unremovable stale files
\* the walk visits every entry, Run returns nil, deletedCount = k and
\* errorCount = m; deletedCount is the number of files actually removed.
C6_PartialFailure ==
    SweepReturned =>
        /\ deletedCount = Cardinality({f \in FileNames :
                              pre.files[f].exists /\ ~files[f].exists})
        /\ denied = NoPath =>
             /\ err = "nil"
             /\ todo = <<>>
             /\ deletedCount = Cardinality({f \in FileNames :
                                   Stale(f) /\ ~pre.files[f].locked})
             /\ errorCount = Cardinality({f \in FileNames :
                                   Stale(f) /\ pre.files[f].locked})
             /\ \A f \in FileNames :
                   (Stale(f) /\ ~pre.files[f].locked) => ~files[f].exists

\* the unremovable file is visited first, the removable one after it
C6_Witness ==
    /\ SweepReturned
    /\ denied = NoPath
    /\ Stale("temp/s/c") /\ pre.files["temp/s/c"].locked
    /\ Stale("temp/z") /\ ~files["temp/z"].exists
    /\ deletedCount = 1
    /\ errorCount = 1

\* C7: once the context is cancelled during the traversal, no entry reached
\* afterwards is deleted.
C7_NoDeleteAfterCancel ==
    [][(cancelled /\ pc = "walk") =>
          \A f \in FileNames : files[f].exists => files'[f].exists]_vars

\* C8: a first-run invocation whose delete and recreate succeed returns nil
\* and leaves the directory present, empty, with mode 0754, and the task in
\* SteadyState, whatever the directory held.
C8_WipeAndRecreate ==
    (pc = "done" /\ branch = "wipe" /\ err = "nil") =>
        /\ dirs = {tempDir}
        /\ files = NoFiles
        /\ perm = Octal(7, 5, 4)
        /\ ~firstRun

\* the directory held a file just written inside a subdirectory
C8_Witness ==
    /\ pc = "done" /\ branch = "wipe" /\ err = "nil"
    /\ pre.firstRun
    /\ SubDir \in pre.dirs
    /\ pre.files["temp/s/c"].exists
    /\ pre.files["temp/s/c"].mtime = now
    /\ now > 0

\* C9: a sweep that directly follows a sweep, with the clock and the
\* filesystem untouched by anyone else in between, deletes nothing and
\* leaves the filesystem as it found it.
C9_Idempotent ==
    (pc = "done" /\ branch = "sweep" /\ quiet) =>
        /\ deletedCount = 0
        /\ files = pre.files
        /\ dirs = pre.dirs

\* the second sweep meets a stale file that cannot be removed and a fresh one
C9_Witness ==
    /\ pc = "done" /\ branch = "sweep" /\ quiet
    /\ errorCount = 1
    /\ \E f \in FileNames : files[f].exists /\ ~Stale(f)

\* C10: under the cadence (startup run, then a tick every hour) no file is
\* deleted by the task at the first invocation after its creation: a file
\* the task deletes has survived an earlier invocation.
C10_NeverDeletedUnseen ==
    [][\A f \in FileNames : TaskDeletes(f) => files[f].seen]_vars

\* C10, amended: under the cadence a sweep deletes only files that survived
\* an earlier invocation unmodified; the first-run wipe deletes whatever is
\* there, also files written since the last invocation.
C10_SweepDeletesSeen ==
    [][\A f \in FileNames : (pc = "walk" /\ TaskDeletes(f)) => files[f].seen]_vars

\* after the startup wipe, a sweep at a later tick deletes a file
C10_Witness ==
    /\ wiped /\ pc = "done" /\ branch = "sweep" /\ deletedCount >= 1
    /\ nextTick = now + LoopIntervalValue

\* C11: a sweep never deletes a directory: the directories are the same after
\* the sweep as before it, and a stale file inside the subdirectory is still
\* examined and removed.
C11_DirectoriesKept ==
    SweepReturned =>
        /\ dirs = pre.dirs
        /\ (Stale("temp/s/c") /\ ~pre.files["temp/s/c"].locked /\ Reached("temp/s/c"))
              => ~files["temp/s/c"].exists

\* the subdirectory is left empty by the sweep and is still there
C11_Witness ==
    /\ SweepReturned
    /\ SubDir \in dirs
    /\ Stale("temp/s/c")
    /\ files = NoFiles
\* C12: while the directory is absent and the task is in FirstRun, every
\* invocation returns at the existence check with the not-exist error, the
\* task never creates the directory and firstRun stays set.
C12_NeverCreated ==
    [][(tempDir \notin dirs /\ firstRun /\ TaskStep) =>
          /\ tempDir \notin dirs'
          /\ firstRun'
          /\ pc = "idle" => (pc' = "done" /\ err' = "ENOENT" /\ branch' = "missing")]_vars

\* the startup run and two ticks have all failed at the existence check
C12_Witness ==
    /\ pc = "done" /\ branch = "missing" /\ firstRun
    /\ lastErr = "ENOENT"
    /\ nextTick = 3 * LoopIntervalValue

\* C13: two invocations of Run of the task are never in flight at once: an
\* invocation begins only after the previous one has returned.
C13_Serialized ==
    /\ inFlight <= 1
    /\ pc # "idle" => inFlight = 1

\* a sweep at work after an earlier invocation has returned
C13_Witness ==
    /\ pc = "walk" /\ inFlight = 1 /\ lastErr = "nil"

\* C14: the task declares a startup run: Run is invoked at startup and has
\* returned before the first periodic tick's invocation begins.
C14_StartupRunFirst ==
    /\ now > 0 => lastErr # "none"
    /\ (pc # "idle" /\ lastErr = "none") => (now = 0 /\ nextTick = LoopIntervalValue)

\* the first periodic tick's invocation, after the startup run returned
C14_Witness ==
    /\ pc # "idle" /\ lastErr # "none"
    /\ now = LoopIntervalValue
    /\ nextTick = 2 * LoopIntervalValue

\* C15: an error returned from Run does not stop the loop: when the next tick
\* is due and the context is not cancelled, Run is invoked again.
C15_ErrorDoesNotStopLoop ==
    (pc = "idle" /\ ~cancelled /\ now = nextTick) => ENABLED Tick

\* an invocation that follows a failed one, and fails too
C15_Witness ==
    /\ pc = "done" /\ err \notin {"none", "nil"}
    /\ lastErr \notin {"none", "nil"}
    /\ nextTick > LoopIntervalValue

\* C16: an access error on an entry makes the sweep skip that entry only: the
\* entry is kept, errorCount counts failed removals only, the other entries
\* are processed and Run returns nil.
C16_AccessErrorSkips ==
    (SweepReturned /\ denied # NoPath) =>
        /\ err = "nil"
        /\ deletedCount = Cardinality({f \in FileNames :
                              Stale(f) /\ ~pre.files[f].locked /\ Reached(f)})
        /\ errorCount = Cardinality({f \in FileNames :
                              Stale(f) /\ pre.files[f].locked /\ Reached(f)})
        /\ \A f \in FileNames :
              /\ ~Reached(f) => files[f] = pre.files[f]
              /\ (Stale(f) /\ ~pre.files[f].locked /\ Reached(f)) => ~files[f].exists

\* the stale file that cannot be accessed is kept, its stale sibling, visited
\* after it, is deleted
C16_Witness ==
    /\ SweepReturned
    /\ denied = "temp/s/c"
    /\ Stale("temp/s/c") /\ ~pre.files["temp/s/c"].locked
    /\ files["temp/s/c"].exists
    /\ Stale("temp/z") /\ ~files["temp/z"].exists
    /\ deletedCount = 1
    /\ errorCount = 0

\* C17: the wipe branch is entered at most once: it is entered only with
\* firstRun set, entering it clears firstRun before the delete, and nothing
\* sets firstRun again.
C17_WipeAtMostOnce ==
    [][/\ ~firstRun => ~firstRun'
       /\ (pc # "removeall" /\ pc' = "removeall") => (firstRun /\ ~firstRun')]_vars

\* the wipe failed, and the next invocation sweeps
C17_Witness ==
    /\ pc = "walkroot" /\ lastErr = "RemoveAllErr" /\ ~wiped

\* C18: when the recreate fails the directory is left absent; afterwards an
\* invocation that finds it absent returns the not-exist error, and only the
\* wipe's recreate or another process ever creates the directory.
C18_NeverRecreated ==
    [][/\ (pc = "mkdirall" /\ err' = "MkdirAllErr") => tempDir \notin dirs'
       /\ (tempDir \notin dirs /\ tempDir \in dirs') =>
             (pc = "mkdirall" \/ (pc = "idle" /\ pc' = "idle"))
       /\ (tempDir \notin dirs /\ ~firstRun /\ pc = "idle" /\ pc' # "idle") =>
             (pc' = "done" /\ err' = "ENOENT" /\ tempDir \notin dirs')]_vars

\* the invocation after the failed recreate
C18_Witness ==
    /\ pc = "done" /\ branch = "missing" /\ lastErr = "MkdirAllErr"
    /\ ~firstRun /\ tempDir \notin dirs

\* C19: Run returns at the existence check exactly when os.Stat reports that
\* the directory does not exist; on another error it goes on to the wipe
\* (FirstRun) or to the sweep (SteadyState).
C19_OnlyNotExistReturns ==
    [][(pc = "idle" /\ pc' # "idle") =>
          /\ pc' = "done" <=> tempDir \notin dirs
          /\ (tempDir \in dirs /\ denied = tempDir) =>
                pc' = (IF firstRun THEN "removeall" ELSE "walkroot")]_vars

\* os.Stat failed with a permission error and the sweep was started
C19_Witness ==
    /\ pc = "walkroot" /\ denied = tempDir /\ tempDir \in dirs

====
